---- MODULE Spec2Model ----
(***************************************************************************)
(* Session / history manager of the crack analyser.                        *)
(*                                                                         *)
(* Two components are modelled, one per source file:                       *)
(*   - CrackAnalyzer (src/src/CrackAnalyzer.jsx): the offline variant with *)
(*     the stub analysis, the key-value store and the history view;        *)
(*     specification Spec.  SpecNoFaults restricts it to runs in which no  *)
(*     call of the store rejects, SpecRefresh to the history list alone    *)
(*     (loadHistory, deleteHistoryItem, loadHistoryItem) on every store    *)
(*     earlier sessions can have left.                                     *)
(*   - CrackDetectionApp (src/frontend/src/CrackAnalyzer.jsx): the         *)
(*     networked variant that posts the file to an HTTP endpoint;          *)
(*     specification SpecFrontend.                                         *)
(*                                                                         *)
(* Every async handler is split at its await points: one action per        *)
(* resumption.  The handlers in flight are kept in a bag of continuation   *)
(* records (tasks); an optional value is <<>> (null) or <<v>>.             *)
(***************************************************************************)
EXTENDS Integers, Sequences, FiniteSets, Bags, TLC

\* ------------------------------------------------------------------ bounds
\* Date.now() ranges over 1..MaxTime.
MaxTime == 3
\* Handlers (uploads, deletes, the mount refresh) in flight at the same time.
MaxInFlight == 2
\* Files the user can pick in the networked variant: 1..MaxFiles.
MaxFiles == 3
\* Files the user can upload in the offline variant: 1..MaxImages.
MaxImages == 1
\* Uploads and deletes the user starts in one run.
MaxUploads == 2
MaxDeletes == 1
\* The times the delete button of one history entry is pressed.
MaxRepeats == 2
\* Values of the random index into the severity list that are explored.
MaxDraw == 1
\* Calls of window.storage.get that reject in one run.
MaxGetFailures == 1

\* ------------------------------------------------------- program constants
\* setTimeout(resolve, 2000) of analyzeCrack, in ticks of the model's clock: the
\* 2000 ms are one tick, so that an analysis never settles at the Date.now()
\* value it started at.
AnalysisDelay == 1
\* "PNG, JPG or JPEG (MAX. 10MB)": the ceiling the upload box advertises.
SizeCeilingMiB == 10

\* ------------------------------------------------------------ option values
Null == <<>>
Some(x) == <<x>>
Val(o) == o[1]

\* ------------------------------------------------------------------- files
Files == 1..MaxFiles
\* file.size, in MiB: every second file is a 15 MiB one.
FileSize(f) == IF f % 2 = 0 THEN 15 ELSE 2
\* file.type: every third file is not an image.
FileType(f) == IF f % 3 = 0 THEN "text/plain" ELSE "image/png"
\* The admission rule of the upload box: an image of at most SizeCeilingMiB.
Admissible(f) == FileType(f) = "image/png" /\ FileSize(f) <= SizeCeilingMiB
\* FileReader.readAsDataURL(file): "data:<type>;base64,<bytes>".
DataURL(f) == <<"data:", FileType(f), f>>
\* URL.createObjectURL(file).
ObjectURL(f) == <<"blob:", f>>

VARIABLES
  \* CrackAnalyzer (offline variant)
  uploadedImage,   \* useState(null): Null or Some(data URL)
  analyzing,       \* useState(false)
  result,          \* useState(null): Null or Some(analysis result)
  history,         \* useState([]): sequence of records
  analysisParams,  \* useState({sensitivity, measurementUnit, includeRecommendations})
  store,           \* window.storage: key -> serialized value
  now,             \* Date.now()
  tasks,           \* bag of the continuations of the handlers in flight
  resultOf,        \* ghost: the image the held result was computed for
  netRecords,      \* ghost: successful persisted analyses minus deletions
  started,         \* ghost: the uploads, deletes and rejected gets so far
  \* CrackDetectionApp (networked variant)
  selectedFile,    \* useState(null): Null or Some(file)
  preview,         \* useState(null)
  loading,         \* useState(false)
  apiResult,       \* useState(null), named result in the source
  error,           \* useState(null)
  request,         \* the handleAnalyze call in flight: Null or Some(continuation)
  outcome          \* ghost: how the last handleAnalyze call settled

offlineVars == <<uploadedImage, analyzing, result, history, analysisParams,
                 store, now, tasks, resultOf, netRecords, started>>
frontendVars == <<selectedFile, preview, loading, apiResult, error, request, outcome>>
vars == <<uploadedImage, analyzing, result, history, analysisParams, store,
          now, tasks, resultOf, netRecords, started,
          selectedFile, preview, loading, apiResult, error, request, outcome>>

\* ---------------------------------------------------------------- analysis
\* severityLevels of analyzeCrack.
severityLevels(sensitivity) ==
  CASE sensitivity = "high" -> <<"Severe", "Critical", "Major">>
    [] sensitivity = "medium" -> <<"Moderate", "Significant">>
    [] sensitivity = "low" -> <<"Minor", "Hairline">>

\* "Risk Level" when only the first test of the first branch is made.
RiskLevel_SevereOnly(severity) ==
  IF severity \in {"Severe"} THEN "High"
  ELSE IF severity \in {"Moderate", "Significant"} THEN "Medium"
  ELSE "Low"

\* "Risk Level" of analyzeCrack: severity.includes(...) on the severity names.
RiskLevel(severity) ==
  IF severity \in {"Severe", "Critical"} THEN "High"
  ELSE IF severity \in {"Moderate", "Significant"} THEN "Medium"
  ELSE "Low"

\* "Recommended Action" of analyzeCrack.
RecommendedAction(severity) ==
  IF severity = "Severe" THEN "Immediate professional inspection required"
  ELSE IF severity = "Moderate" THEN "Schedule repair within 30 days"
  ELSE "Monitor regularly, repair at convenience"

\* The object analyzeCrack returns for the captured parameters and the random
\* index rnd into the severity list; action is Null when recommendations are
\* not included; WidthUnit is the unit in the name of the width field.  The
\* other random fields do not feed any decision.
analyzeCrack(params, rnd) ==
  LET severity == severityLevels(params.sensitivity)[rnd] IN
  [Severity |-> severity,
   WidthUnit |-> IF params.measurementUnit = "metric" THEN "mm" ELSE "in",
   RiskLevel |-> RiskLevel(severity),
   RecommendedAction |-> IF params.includeRecommendations
                         THEN Some(RecommendedAction(severity)) ELSE Null]

\* ------------------------------------------------------------------- store
Prefix == "crack-analysis:"
\* `crack-analysis:${id}`
Key(id) == <<Prefix, id>>
\* JSON.stringify(analysisRecord)
Stringify(rec) == [json |-> Some(rec)]
\* A value under the prefix that is not JSON.
Garbage == [json |-> Null]
\* JSON.parse(item.value): Null stands for the SyntaxError it throws.
Parse(value) == value.json
\* window.storage.set / delete on the key-value map.
StorePut(s, k, v) == [x \in DOMAIN s \cup {k} |-> IF x = k THEN v ELSE s[x]]
StoreRemove(s, k) == [x \in DOMAIN s \ {k} |-> s[x]]
EmptyStore == [x \in {} |-> Garbage]
\* The valid records the store holds.
ValidRecords(s) == {Val(Parse(s[k])) : k \in {x \in DOMAIN s : Parse(s[x]) # Null}}

\* A record persisted by an earlier session, and the stores a session starts on.
DefaultParams ==
  [sensitivity |-> "medium", measurementUnit |-> "metric",
   includeRecommendations |-> TRUE]
OldRecord ==
  [id |-> "0", timestamp |-> 0, image |-> <<"data:", "image/jpeg", 0>>,
   result |-> analyzeCrack(DefaultParams, 1)]
InitStores ==
  {EmptyStore,
   StorePut(StorePut(EmptyStore, Key("0"), Stringify(OldRecord)),
            Key("junk"), Garbage)}

\* ------------------------------------------------------------------- tasks
NoGot == [x \in {} |-> Null]
\* The continuation of one handler: kind is "upload", "delete" or "mount".
NewTask(kind, pc) ==
  [kind |-> kind, pc |-> pc, file |-> 0, params |-> DefaultParams, start |-> 0,
   rec |-> Null, target |-> "", keys |-> {}, got |-> NoGot]
InFlight == BagCardinality(tasks)
Running == BagToSet(tasks)
Replace(t, t2) == (tasks (-) SetToBag({t})) (+) SetToBag({t2})
Remove(t) == tasks (-) SetToBag({t})

\* ----------------------------------------------------------------- sorting
\* Array.prototype.sort((a, b) => b.timestamp - a.timestamp): a stable sort,
\* newest first; records of equal timestamp keep their input order.
RECURSIVE SortNewestFirst(_)
SortNewestFirst(s) ==
  IF s = <<>> THEN <<>>
  ELSE LET front == SortNewestFirst(SubSeq(s, 1, Len(s) - 1))
           x == s[Len(s)]
           before == SelectSeq(front, LAMBDA y : y.timestamp >= x.timestamp)
           after == SelectSeq(front, LAMBDA y : y.timestamp < x.timestamp)
       IN before \o <<x>> \o after

\* The orders in which storage.list can return a set of entries.
Orderings(S) ==
  {q \in [1..Cardinality(S) -> S] : \A i, j \in 1..Cardinality(S) : q[i] = q[j] => i = j}

\* ============================================================ CrackAnalyzer
InitFrontend ==
  /\ selectedFile = Null /\ preview = Null /\ loading = FALSE
  /\ apiResult = Null /\ error = Null /\ request = Null
  /\ outcome = "none"

\* The state after the first render; useEffect has called loadHistory().
Init ==
  /\ uploadedImage = Null /\ analyzing = FALSE /\ result = Null
  /\ history = <<>>
  /\ analysisParams = DefaultParams
  /\ store \in InitStores
  /\ now = 1
  /\ tasks = SetToBag({NewTask("mount", "listing")})
  /\ resultOf = Null
  /\ netRecords = Cardinality(ValidRecords(store))
  /\ started = [upload |-> 0, delete |-> 0, getFailure |-> 0]
  /\ InitFrontend

\* handleImageUpload, the change event: a file is picked and handed to the
\* FileReader.  The handlers of this render close over analysisParams.
handleImageUpload(f) ==
  /\ InFlight < MaxInFlight
  /\ started.upload < MaxUploads
  /\ started' = [started EXCEPT !.upload = @ + 1]
  /\ tasks' = tasks (+) SetToBag({[NewTask("upload", "reading") EXCEPT
                                     !.file = f, !.params = analysisParams]})
  /\ UNCHANGED <<uploadedImage, analyzing, result, history, analysisParams,
                 store, now, resultOf, netRecords>>
  /\ UNCHANGED frontendVars

\* reader.onload up to the await of analyzeCrack(), which starts its timer.
ReaderOnload(t) ==
  /\ t.kind = "upload" /\ t.pc = "reading"
  /\ uploadedImage' = Some(DataURL(t.file))
  /\ analyzing' = TRUE
  /\ result' = Null
  /\ resultOf' = Null
  /\ tasks' = Replace(t, [t EXCEPT !.pc = "analyzing", !.start = now])
  /\ UNCHANGED <<history, analysisParams, store, now, netRecords>>
  /\ UNCHANGED <<started, frontendVars>>

\* AnalysisSettles when analyzeCrack reads the parameters of the latest
\* render instead of those its closure holds.
AnalysisSettles_ReadsLatest(t, rnd, n, d) ==
  /\ t.kind = "upload" /\ t.pc = "analyzing"
  /\ n >= now /\ n >= t.start + AnalysisDelay
  /\ n + d <= MaxTime
  /\ rnd <= Len(severityLevels(analysisParams.sensitivity))
  /\ LET analysisResult == analyzeCrack(analysisParams, rnd)
         analysisRecord == [id |-> ToString(n), timestamp |-> n + d,
                            image |-> DataURL(t.file), result |-> analysisResult]
     IN /\ result' = Some(analysisResult)
        /\ resultOf' = Some(DataURL(t.file))
        /\ tasks' = Replace(t, [t EXCEPT !.pc = "writing", !.rec = Some(analysisRecord)])
  /\ now' = n + d
  /\ UNCHANGED <<uploadedImage, analyzing, history, analysisParams, store, netRecords>>
  /\ UNCHANGED <<started, frontendVars>>

\* The timer fires at clock value n, not before AnalysisDelay has passed;
\* analyzeCrack returns; setResult; the record is built with two Date.now()
\* calls (d: the clock may advance between them) and window.storage.set is
\* called.  The clock is read nowhere else, so it advances here.
AnalysisSettles(t, rnd, n, d) ==
  /\ t.kind = "upload" /\ t.pc = "analyzing"
  /\ n >= now /\ n >= t.start + AnalysisDelay
  /\ n + d <= MaxTime
  /\ LET analysisResult == analyzeCrack(t.params, rnd)
         analysisRecord == [id |-> ToString(n), timestamp |-> n + d,
                            image |-> DataURL(t.file), result |-> analysisResult]
     IN /\ result' = Some(analysisResult)
        /\ resultOf' = Some(DataURL(t.file))
        /\ tasks' = Replace(t, [t EXCEPT !.pc = "writing", !.rec = Some(analysisRecord)])
  /\ now' = n + d
  /\ UNCHANGED <<uploadedImage, analyzing, history, analysisParams, store, netRecords>>
  /\ UNCHANGED <<started, frontendVars>>

\* window.storage.set resolves; loadHistory() is called.
StoreSetOk(t) ==
  /\ t.kind = "upload" /\ t.pc = "writing"
  /\ store' = StorePut(store, Key(Val(t.rec).id), Stringify(Val(t.rec)))
  /\ netRecords' = netRecords + 1
  /\ tasks' = Replace(t, [t EXCEPT !.pc = "listing"])
  /\ UNCHANGED <<uploadedImage, analyzing, result, history, analysisParams, now, resultOf>>
  /\ UNCHANGED <<started, frontendVars>>

\* FinishHandler without the finally block of the upload handler.
FinishHandler_NoFinally(t) ==
  /\ analyzing' = analyzing
  /\ tasks' = Remove(t)

\* What the end of a handler does once its loadHistory() has returned: the
\* finally block of the upload handler; nothing for a delete or the mount.
FinishHandler(t) ==
  /\ analyzing' = IF t.kind = "upload" THEN FALSE ELSE analyzing
  /\ tasks' = Remove(t)

\* window.storage.set rejects: catch (console.error), finally.
StoreSetFail(t) ==
  /\ t.kind = "upload" /\ t.pc = "writing"
  /\ FinishHandler(t)
  /\ UNCHANGED <<uploadedImage, result, history, analysisParams, store, now,
                 resultOf, netRecords>>
  /\ UNCHANGED <<started, frontendVars>>

\* loadHistory: window.storage.list resolves with the keys under the prefix;
\* the per-key fetches start.
ListOk(t) ==
  /\ t.pc = "listing"
  /\ tasks' = Replace(t, [t EXCEPT !.pc = "fetching",
                                   !.keys = {k \in DOMAIN store : k[1] = Prefix},
                                   !.got = NoGot])
  /\ UNCHANGED <<uploadedImage, analyzing, result, history, analysisParams,
                 store, now, resultOf, netRecords>>
  /\ UNCHANGED <<started, frontendVars>>

\* loadHistory: list resolves with no key set; nothing is set.
ListNoKeys(t) ==
  /\ t.pc = "listing"
  /\ FinishHandler(t)
  /\ UNCHANGED <<uploadedImage, result, history, analysisParams, store, now,
                 resultOf, netRecords>>
  /\ UNCHANGED <<started, frontendVars>>

\* ListFail without the setHistory([]) of the outer catch.
ListFail_KeepsHistory(t) ==
  /\ t.pc = "listing"
  /\ history' = history
  /\ FinishHandler(t)
  /\ UNCHANGED <<uploadedImage, result, analysisParams, store, now,
                 resultOf, netRecords>>
  /\ UNCHANGED <<started, frontendVars>>

\* loadHistory: list rejects; the outer catch sets the empty history.
ListFail(t) ==
  /\ t.pc = "listing"
  /\ history' = <<>>
  /\ FinishHandler(t)
  /\ UNCHANGED <<uploadedImage, result, analysisParams, store, now,
                 resultOf, netRecords>>
  /\ UNCHANGED <<started, frontendVars>>

\* One element of the keys.map callback: item ? JSON.parse(item.value) : null,
\* null when get or parse throws (ok = FALSE: get rejects).
FetchItem(s, k, ok) ==
  IF ~ok THEN Null
  ELSE IF k \notin DOMAIN s THEN Null
  ELSE Parse(s[k])

\* loadHistory: the fetch of one key settles (ok = FALSE: get rejects).
Fetch(t, k, ok) ==
  /\ t.pc = "fetching"
  /\ k \in t.keys \ DOMAIN t.got
  /\ ok \/ started.getFailure < MaxGetFailures
  /\ started' = [started EXCEPT !.getFailure = IF ok THEN @ ELSE @ + 1]
  /\ tasks' = Replace(t, [t EXCEPT !.got =
        [x \in DOMAIN t.got \cup {k} |->
            IF x = k THEN FetchItem(store, k, ok) ELSE t.got[x]]])
  /\ UNCHANGED <<uploadedImage, analyzing, result, history, analysisParams,
                 store, now, resultOf, netRecords>>
  /\ UNCHANGED frontendVars

\* analyses.filter(Boolean): the keys whose fetch gave a record.
Fetched(t) == {k \in t.keys : t.got[k] # Null}

\* RefreshDone without the try/catch around each fetch: one entry that fails
\* rejects Promise.all and the outer catch sets the empty history.
RefreshDone_NoInnerCatch(t) ==
  /\ t.pc = "fetching"
  /\ DOMAIN t.got = t.keys
  /\ IF Fetched(t) # t.keys
     THEN history' = <<>>
     ELSE \E q \in Orderings(Fetched(t)) :
             history' = SortNewestFirst([i \in 1..Len(q) |-> Val(t.got[q[i]])])
  /\ FinishHandler(t)
  /\ UNCHANGED <<uploadedImage, result, analysisParams, store, now,
                 resultOf, netRecords>>
  /\ UNCHANGED <<started, frontendVars>>

\* loadHistory: Promise.all resolves; setHistory(filter, sort), in the order q
\* in which list returned the keys; then the handler ends.
RefreshDone(t) ==
  /\ t.pc = "fetching"
  /\ DOMAIN t.got = t.keys
  /\ \E q \in Orderings(Fetched(t)) :
        history' = SortNewestFirst([i \in 1..Len(q) |-> Val(t.got[q[i]])])
  /\ FinishHandler(t)
  /\ UNCHANGED <<uploadedImage, result, analysisParams, store, now,
                 resultOf, netRecords>>
  /\ UNCHANGED <<started, frontendVars>>

\* deleteHistoryItem(item.id), from the history list: window.storage.delete is
\* called.
deleteHistoryItem(i) ==
  /\ i \in 1..Len(history)
  /\ InFlight < MaxInFlight
  /\ started' = [started EXCEPT !.delete = @ + 1]
  /\ tasks' = tasks (+) SetToBag({[NewTask("delete", "deleting") EXCEPT
                                     !.target = history[i].id]})
  /\ UNCHANGED <<uploadedImage, analyzing, result, history, analysisParams,
                 store, now, resultOf, netRecords>>
  /\ UNCHANGED frontendVars

\* DeleteOk when window.storage.delete throws for a key that is not stored:
\* the catch logs it and loadHistory() is not called.
DeleteOk_MissingKeyThrows(t) ==
  /\ t.kind = "delete" /\ t.pc = "deleting"
  /\ store' = StoreRemove(store, Key(t.target))
  /\ netRecords' = IF Key(t.target) \in DOMAIN store THEN netRecords - 1 ELSE netRecords
  /\ tasks' = IF Key(t.target) \in DOMAIN store
              THEN Replace(t, [t EXCEPT !.pc = "listing"])
              ELSE Remove(t)
  /\ UNCHANGED <<uploadedImage, analyzing, result, history, analysisParams, now, resultOf>>
  /\ UNCHANGED <<started, frontendVars>>

\* DeleteOk when the handler also clears the display of the record it
\* deletes.
DeleteOk_ClearsDisplayed(t) ==
  /\ t.kind = "delete" /\ t.pc = "deleting"
  /\ store' = StoreRemove(store, Key(t.target))
  /\ netRecords' = IF Key(t.target) \in DOMAIN store THEN netRecords - 1 ELSE netRecords
  /\ tasks' = Replace(t, [t EXCEPT !.pc = "listing"])
  /\ result' = IF \E i \in 1..Len(history) :
                     history[i].id = t.target /\ Some(history[i].result) = result
               THEN Null ELSE result
  /\ UNCHANGED <<uploadedImage, analyzing, history, analysisParams, now, resultOf>>
  /\ UNCHANGED <<started, frontendVars>>

\* window.storage.delete resolves; loadHistory() is called.
DeleteOk(t) ==
  /\ t.kind = "delete" /\ t.pc = "deleting"
  /\ store' = StoreRemove(store, Key(t.target))
  /\ netRecords' = IF Key(t.target) \in DOMAIN store THEN netRecords - 1 ELSE netRecords
  /\ tasks' = Replace(t, [t EXCEPT !.pc = "listing"])
  /\ UNCHANGED <<uploadedImage, analyzing, result, history, analysisParams, now, resultOf>>
  /\ UNCHANGED <<started, frontendVars>>

\* window.storage.delete rejects: catch (console.error).
DeleteFail(t) ==
  /\ t.kind = "delete" /\ t.pc = "deleting"
  /\ tasks' = Remove(t)
  /\ UNCHANGED <<uploadedImage, analyzing, result, history, analysisParams,
                 store, now, resultOf, netRecords>>
  /\ UNCHANGED <<started, frontendVars>>

\* loadHistoryItem when selecting a record runs its image through the
\* analysis again.
loadHistoryItem_Reanalyzes(i) ==
  /\ i \in 1..Len(history)
  /\ uploadedImage' = Some(history[i].image)
  /\ result' = Null
  /\ resultOf' = Null
  /\ analyzing' = TRUE
  /\ tasks' = tasks (+) SetToBag({[NewTask("upload", "analyzing") EXCEPT
                                     !.file = history[i].image[3],
                                     !.params = analysisParams, !.start = now]})
  /\ UNCHANGED <<history, analysisParams, store, now, netRecords>>
  /\ UNCHANGED <<started, frontendVars>>

\* loadHistoryItem(item), from the history list.
loadHistoryItem(i) ==
  /\ i \in 1..Len(history)
  /\ uploadedImage' = Some(history[i].image)
  /\ result' = Some(history[i].result)
  /\ resultOf' = Some(history[i].image)
  /\ UNCHANGED <<analyzing, history, analysisParams, store, now, tasks, netRecords>>
  /\ UNCHANGED <<started, frontendVars>>

Next ==
  \/ \E f \in 1..MaxImages : handleImageUpload(f)
  \/ \E t \in Running : ReaderOnload(t)
  \/ \E t \in Running, rnd \in 1..MaxDraw, n \in 1..MaxTime, d \in {0, 1} :
        /\ rnd <= Len(severityLevels(t.params.sensitivity))
        /\ AnalysisSettles(t, rnd, n, d)
  \/ \E t \in Running : StoreSetOk(t)
  \/ \E t \in Running : StoreSetFail(t)
  \/ \E t \in Running : ListOk(t)
  \/ \E t \in Running : ListNoKeys(t)
  \/ \E t \in Running : ListFail(t)
  \/ \E t \in Running, k \in DOMAIN store \cup UNION {x.keys : x \in Running},
        ok \in BOOLEAN : Fetch(t, k, ok)
  \/ \E t \in Running : RefreshDone(t)
  \/ \E i \in 1..Len(history) :
        started.delete < MaxDeletes /\ deleteHistoryItem(i)
  \/ \E t \in Running : DeleteOk(t)
  \/ \E t \in Running : DeleteFail(t)
  \/ \E i \in 1..Len(history) : loadHistoryItem(i)

Spec == Init /\ [][Next]_vars

\* ======================================================== CrackDetectionApp
\* The message setError is given in the catch block.
ErrorMessage == "Failed to analyze image. Check backend is running at API_URL"
\* The status discriminant of a response document.
Statuses == {"NO_CRACK", "NON_STRUCTURAL_FEATURE", "STRUCTURAL_CRACK_DETECTED"}

\* The offline variant is not mounted.
InitSpecFrontend ==
  /\ uploadedImage = Null /\ analyzing = FALSE /\ result = Null
  /\ history = <<>>
  /\ analysisParams = DefaultParams
  /\ store = EmptyStore
  /\ now = 1
  /\ tasks = EmptyBag
  /\ resultOf = Null
  /\ netRecords = 0
  /\ started = [upload |-> 0, delete |-> 0, getFailure |-> 0]
  /\ InitFrontend

\* handleFileSelect: the change event of the file input.
handleFileSelect(f) ==
  /\ selectedFile' = Some(f)
  /\ preview' = Some(ObjectURL(f))
  /\ apiResult' = Null
  /\ error' = Null
  /\ UNCHANGED <<loading, request, outcome>>
  /\ UNCHANGED offlineVars

\* handleAnalyze without the early return on a missing file, behind a button
\* that is disabled only while loading.
handleAnalyze_NoFileGuard ==
  /\ ~loading
  /\ loading' = TRUE
  /\ error' = Null
  /\ request' = Some([pc |-> "fetch",
                      file |-> IF selectedFile = Null THEN 0 ELSE Val(selectedFile)])
  /\ outcome' = "none"
  /\ UNCHANGED <<selectedFile, preview, apiResult>>
  /\ UNCHANGED offlineVars

\* handleAnalyze up to the await of fetch; the button that calls it is
\* disabled while !selectedFile || loading.
handleAnalyze ==
  /\ selectedFile # Null /\ ~loading
  /\ loading' = TRUE
  /\ error' = Null
  /\ request' = Some([pc |-> "fetch", file |-> Val(selectedFile)])
  /\ outcome' = "none"
  /\ UNCHANGED <<selectedFile, preview, apiResult>>
  /\ UNCHANGED offlineVars

\* AnalyzeFailed without the finally block: the loading flag stays set.
AnalyzeFailed_NoFinally ==
  /\ error' = Some(ErrorMessage)
  /\ loading' = loading
  /\ request' = Null
  /\ outcome' = "failed"
  /\ UNCHANGED <<selectedFile, preview, apiResult>>
  /\ UNCHANGED offlineVars

\* The catch and finally blocks of handleAnalyze.
AnalyzeFailed ==
  /\ error' = Some(ErrorMessage)
  /\ loading' = FALSE
  /\ request' = Null
  /\ outcome' = "failed"
  /\ UNCHANGED <<selectedFile, preview, apiResult>>
  /\ UNCHANGED offlineVars

\* fetch resolves with response.ok; response.json() is awaited.
FetchOk ==
  /\ request # Null /\ Val(request).pc = "fetch"
  /\ request' = Some([Val(request) EXCEPT !.pc = "json"])
  /\ UNCHANGED <<selectedFile, preview, loading, apiResult, error, outcome>>
  /\ UNCHANGED offlineVars

\* fetch rejects (endpoint unreachable) or resolves with !response.ok.
FetchFail ==
  /\ request # Null /\ Val(request).pc = "fetch"
  /\ AnalyzeFailed

\* response.json() resolves: setResult(data), finally.  The field file is a
\* ghost: the file the document was computed for.
JsonOk(status) ==
  /\ request # Null /\ Val(request).pc = "json"
  /\ apiResult' = Some([status |-> status, file |-> Val(request).file])
  /\ loading' = FALSE
  /\ request' = Null
  /\ outcome' = "ok"
  /\ UNCHANGED <<selectedFile, preview, error>>
  /\ UNCHANGED offlineVars

\* response.json() rejects (malformed payload).
JsonFail ==
  /\ request # Null /\ Val(request).pc = "json"
  /\ AnalyzeFailed

NextFrontend ==
  \/ \E f \in Files : handleFileSelect(f)
  \/ handleAnalyze
  \/ FetchOk
  \/ FetchFail
  \/ \E status \in Statuses : JsonOk(status)
  \/ JsonFail

SpecFrontend == InitSpecFrontend /\ [][NextFrontend]_vars

\* =================================================== fault-free offline runs
\* The state once the mount refresh has settled on a store that answers:
\* the history view shows the valid records of the store.
InitSettled ==
  /\ uploadedImage = Null /\ analyzing = FALSE /\ result = Null
  /\ analysisParams = DefaultParams
  /\ store \in InitStores
  /\ \E q \in Orderings(ValidRecords(store)) : history = SortNewestFirst(q)
  /\ now = 1
  /\ tasks = EmptyBag
  /\ resultOf = Null
  /\ netRecords = Cardinality(ValidRecords(store))
  /\ started = [upload |-> 0, delete |-> 0, getFailure |-> 0]
  /\ InitFrontend

\* The steps of the offline variant when no call of window.storage rejects.
NextNoFaults ==
  \/ \E f \in 1..MaxImages : handleImageUpload(f)
  \/ \E t \in Running : ReaderOnload(t)
  \/ \E t \in Running, rnd \in 1..MaxDraw, n \in 1..MaxTime, d \in {0, 1} :
        /\ rnd <= Len(severityLevels(t.params.sensitivity))
        /\ AnalysisSettles(t, rnd, n, d)
  \/ \E t \in Running : StoreSetOk(t)
  \/ \E t \in Running : ListOk(t)
  \/ \E t \in Running, k \in DOMAIN store \cup UNION {x.keys : x \in Running} :
        Fetch(t, k, TRUE)
  \/ \E t \in Running : RefreshDone(t)
  \/ \E i \in 1..Len(history) :
        started.delete < MaxDeletes /\ deleteHistoryItem(i)
  \/ \E t \in Running : DeleteOk(t)
  \/ \E i \in 1..Len(history) : loadHistoryItem(i)

SpecNoFaults == InitSettled /\ [][NextNoFaults]_vars

\* ===================================================== the history manager
\* A second record of an earlier session, built in the millisecond before
\* OldRecord and stamped in the same one.
OlderRecord ==
  [id |-> "-1", timestamp |-> 0, image |-> <<"data:", "image/jpeg", 0>>,
   result |-> analyzeCrack(DefaultParams, 2)]
\* The entries earlier sessions can have left under the prefix.
PersistedEntries ==
  StorePut(StorePut(StorePut(EmptyStore, Key("0"), Stringify(OldRecord)),
                    Key("-1"), Stringify(OlderRecord)),
           Key("junk"), Garbage)
PersistedStores ==
  {[k \in D |-> PersistedEntries[k]] : D \in SUBSET DOMAIN PersistedEntries}

\* The state after the first render, on any store earlier sessions left.
InitRefresh ==
  /\ uploadedImage = Null /\ analyzing = FALSE /\ result = Null
  /\ history = <<>>
  /\ analysisParams = DefaultParams
  /\ store \in PersistedStores
  /\ now = 1
  /\ tasks = SetToBag({NewTask("mount", "listing")})
  /\ resultOf = Null
  /\ netRecords = Cardinality(ValidRecords(store))
  /\ started = [upload |-> 0, delete |-> 0, getFailure |-> 0]
  /\ InitFrontend

\* The steps of the history list: loadHistory, deleteHistoryItem and
\* loadHistoryItem, when no image is uploaded.
NextRefresh ==
  \/ \E t \in Running : ListOk(t)
  \/ \E t \in Running : ListNoKeys(t)
  \/ \E t \in Running : ListFail(t)
  \/ \E t \in Running, k \in DOMAIN store \cup UNION {x.keys : x \in Running},
        ok \in BOOLEAN : Fetch(t, k, ok)
  \/ \E t \in Running : RefreshDone(t)
  \/ \E i \in 1..Len(history) :
        started.delete < MaxDeletes /\ deleteHistoryItem(i)
  \/ \E t \in Running : DeleteOk(t)
  \/ \E t \in Running : DeleteFail(t)
  \/ \E i \in 1..Len(history) : loadHistoryItem(i)

SpecRefresh == InitRefresh /\ [][NextRefresh]_vars

\* ================================================= deleting a history entry
\* The state once the mount refresh has settled, on any store earlier
\* sessions left.
InitDelete ==
  /\ uploadedImage = Null /\ analyzing = FALSE /\ result = Null
  /\ analysisParams = DefaultParams
  /\ store \in PersistedStores
  /\ \E q \in Orderings(ValidRecords(store)) : history = SortNewestFirst(q)
  /\ now = 1
  /\ tasks = EmptyBag
  /\ resultOf = Null
  /\ netRecords = Cardinality(ValidRecords(store))
  /\ started = [upload |-> 0, delete |-> 0, getFailure |-> 0]
  /\ InitFrontend

\* The delete button of one history entry is pressed, and pressed again
\* while the entry is still listed; the store answers every call.
NextDelete ==
  \/ \E i \in 1..Len(history) :
        /\ started.delete < MaxRepeats
        /\ started.delete = 0 \/ \E t \in Running : t.target = history[i].id
        /\ deleteHistoryItem(i)
  \/ \E t \in Running : DeleteOk(t)
  \/ \E t \in Running : ListOk(t)
  \/ \E t \in Running, k \in DOMAIN store \cup UNION {x.keys : x \in Running} :
        Fetch(t, k, TRUE)
  \/ \E t \in Running : RefreshDone(t)

SpecDelete == InitDelete /\ [][NextDelete]_vars


\* ============================================================ the settings
\* The options of the settings panel.
Sensitivities == {"low", "medium", "high"}
MeasurementUnits == {"metric", "imperial"}

\* onChange of the sensitivity select with the defaults spread instead of the
\* state.
setSensitivity_FromDefaults(v) ==
  /\ analysisParams' = [DefaultParams EXCEPT !.sensitivity = v]
  /\ UNCHANGED <<uploadedImage, analyzing, result, history, store, now, tasks,
                 resultOf, netRecords, started>>
  /\ UNCHANGED frontendVars

\* onChange of the sensitivity select:
\* setAnalysisParams({...analysisParams, sensitivity: e.target.value}).
setSensitivity(v) ==
  /\ analysisParams' = [analysisParams EXCEPT !.sensitivity = v]
  /\ UNCHANGED <<uploadedImage, analyzing, result, history, store, now, tasks,
                 resultOf, netRecords, started>>
  /\ UNCHANGED frontendVars

\* onChange of the units select.
setMeasurementUnit(v) ==
  /\ analysisParams' = [analysisParams EXCEPT !.measurementUnit = v]
  /\ UNCHANGED <<uploadedImage, analyzing, result, history, store, now, tasks,
                 resultOf, netRecords, started>>
  /\ UNCHANGED frontendVars

\* onChange of the recommendations checkbox.
setIncludeRecommendations(v) ==
  /\ analysisParams' = [analysisParams EXCEPT !.includeRecommendations = v]
  /\ UNCHANGED <<uploadedImage, analyzing, result, history, store, now, tasks,
                 resultOf, netRecords, started>>
  /\ UNCHANGED frontendVars

\* The state once the mount refresh has settled on an empty store.
InitSettings ==
  /\ uploadedImage = Null /\ analyzing = FALSE /\ result = Null
  /\ analysisParams = DefaultParams
  /\ store = EmptyStore
  /\ history = <<>>
  /\ now = 1
  /\ tasks = EmptyBag
  /\ resultOf = Null
  /\ netRecords = 0
  /\ started = [upload |-> 0, delete |-> 0, getFailure |-> 0]
  /\ InitFrontend

\* The settings panel and the uploads, on a store that answers every call.
NextSettings ==
  \/ \E v \in Sensitivities : setSensitivity(v)
  \/ \E v \in MeasurementUnits : setMeasurementUnit(v)
  \/ \E v \in BOOLEAN : setIncludeRecommendations(v)
  \/ \E f \in 1..MaxImages : handleImageUpload(f)
  \/ \E t \in Running : ReaderOnload(t)
  \/ \E t \in Running, rnd \in 1..MaxDraw, n \in 1..MaxTime, d \in {0, 1} :
        /\ rnd <= Len(severityLevels(t.params.sensitivity))
        /\ AnalysisSettles(t, rnd, n, d)
  \/ \E t \in Running : StoreSetOk(t)
  \/ \E t \in Running : ListOk(t)
  \/ \E t \in Running, k \in DOMAIN store \cup UNION {x.keys : x \in Running} :
        Fetch(t, k, TRUE)
  \/ \E t \in Running : RefreshDone(t)

SpecSettings == InitSettings /\ [][NextSettings]_vars

\* ============================================================ analyzeCrack
\* Every value the settings panel can give the parameters.
AllParams ==
  [sensitivity : Sensitivities, measurementUnit : MeasurementUnits,
   includeRecommendations : BOOLEAN]

\* The component with the settings at any value, nothing uploaded yet.
InitAnalysis ==
  /\ uploadedImage = Null /\ analyzing = FALSE /\ result = Null
  /\ analysisParams \in AllParams
  /\ store = EmptyStore
  /\ history = <<>>
  /\ now = 1
  /\ tasks = EmptyBag
  /\ resultOf = Null
  /\ netRecords = 0
  /\ started = [upload |-> 0, delete |-> 0, getFailure |-> 0]
  /\ InitFrontend

\* analyzeCrack() returns under the parameters in force, with the random
\* index rnd into the severity list, and the result is displayed.
analyzeCrackReturns(rnd) ==
  /\ rnd \in 1..Len(severityLevels(analysisParams.sensitivity))
  /\ result' = Some(analyzeCrack(analysisParams, rnd))
  /\ UNCHANGED <<uploadedImage, analyzing, history, analysisParams, store, now,
                 tasks, resultOf, netRecords, started>>
  /\ UNCHANGED frontendVars

\* The settings panel and analyzeCrack, on every parameter value and every
\* draw.
NextAnalysis ==
  \/ \E v \in Sensitivities : setSensitivity(v)
  \/ \E v \in MeasurementUnits : setMeasurementUnit(v)
  \/ \E v \in BOOLEAN : setIncludeRecommendations(v)
  \/ \E rnd \in 1..Len(severityLevels(analysisParams.sensitivity)) :
        analyzeCrackReturns(rnd)

SpecAnalysis == InitAnalysis /\ [][NextAnalysis]_vars

\* ================================================================== claims
Range(s) == {s[i] : i \in 1..Len(s)}
\* The keys of the store that hold a valid record.
RecordKeys(s) == {k \in DOMAIN s : Parse(s[k]) # Null}
\* The uploads whose analyzeCrack() call is pending, with multiplicity.
AnalysesInFlight ==
  LET U == {t \in Running : t.kind = "upload" /\ t.pc = "analyzing"}
  IN IF U = {} THEN 0
     ELSE IF Cardinality(U) = 1 THEN CopiesIn(CHOOSE t \in U : TRUE, tasks)
     ELSE Cardinality(U)

\* C1: a second analysis trigger that arrives while an analysis is in flight
\* is a no-op, so at most one analysis request is in flight at any time.
C1_SecondTriggerIsNoOp == AnalysesInFlight <= 1

\* C2: while the session is Analyzing no new image can be selected, so the
\* held file is unchanged by every step taken while loading and a result that
\* is installed is the result of the held file.
C2_NoSelectWhileAnalyzing ==
  [][loading =>
       /\ selectedFile' = selectedFile
       /\ (apiResult' # Null => Val(apiResult').file = Val(selectedFile'))]_vars

\* C3: after the refresh of one delete and the refresh of one completed
\* analysis have both settled, with no call of the store rejecting and no
\* handler left in flight, the history view shows exactly the valid records of
\* the store.
C3_RacingRefreshesConverge ==
  (InFlight = 0 /\ started.upload = 1 /\ started.delete = 1)
     => Range(history) = ValidRecords(store)

\* C4: the number of records in the store equals the number of successful
\* persisted analyses minus the number of deletions.
C4_RecordCount == Cardinality(RecordKeys(store)) = netRecords

\* C5: a record is created once and never changed: no step changes the value
\* stored under a key, and every successful write adds a key that was not in
\* the store.
C5_RecordsImmutable ==
  [][/\ \A k \in DOMAIN store \cap DOMAIN store' : store'[k] = store[k]
     /\ (netRecords' = netRecords + 1 => DOMAIN store' # DOMAIN store)]_vars

C7_WriteFailureKeepsResult ==
  [][\A t \in Running :
       (t.kind = "upload" /\ t.pc = "writing" /\ tasks' = Remove(t)) =>
         /\ analyzing' = FALSE
         /\ result' # Null]_vars

C9_InvalidInputRejected ==
  /\ selectedFile # Null => Admissible(Val(selectedFile))
  /\ request # Null => Admissible(Val(request).file)

\* C10: a refresh that has fetched every listed key sets the history to the
\* records it fetched, dropping the entries that failed to fetch or to parse;
\* on a store nothing has changed and no get rejected, that is every valid
\* record of the store.
C10_BadEntriesDropped ==
  [][\A t \in Running :
       (t.pc = "fetching" /\ DOMAIN t.got = t.keys /\ tasks' = Remove(t)) =>
         /\ Range(history') = {Val(t.got[k]) : k \in {x \in t.keys : t.got[x] # Null}}
         /\ (started.upload = 0 /\ started.delete = 0 /\ started.getFailure = 0)
               => Range(history') = ValidRecords(store)]_vars

\* C10 witness: the history shows the valid record of a store that also holds
\* an entry that does not parse.
C10_Witness ==
  /\ InFlight = 0 /\ history = <<OldRecord>>
  /\ Key("junk") \in DOMAIN store /\ Parse(store[Key("junk")]) = Null

\* The number an id spells: ids are Date.now().toString().
IdValue(id) == CHOOSE n \in -1..(MaxTime + 1) : ToString(n) = id
\* r is listed before s: newer first, and of two records of one timestamp the
\* one of the greater id first.
ListedBefore(r, s) ==
  \/ r.timestamp > s.timestamp
  \/ r.timestamp = s.timestamp /\ IdValue(r.id) > IdValue(s.id)

\* C11: the history view is ordered by timestamp descending, records of equal
\* timestamp by id descending, whatever the order the store listed them in.
C11_NewestFirstThenId ==
  \A i, j \in 1..Len(history) : i < j => ListedBefore(history[i], history[j])

\* C12: deleting is idempotent.  When the delete button of one entry is
\* pressed twice, the store changes at the first delete call to resolve and at
\* no later one; the call that finds the key gone changes neither the store nor
\* the view, is not an error and goes on to the refresh; and once the handlers
\* have settled the view shows the valid records of the store, after two calls
\* as after one.
C12_DeleteIdempotent ==
  [][/\ store' # store =>
          \A t \in Running : t.kind = "delete" => t.pc = "deleting"
     /\ \A t \in Running :
          (/\ t.kind = "delete" /\ t.pc = "deleting"
           /\ Key(t.target) \notin DOMAIN store
           /\ CopiesIn(t, tasks') < CopiesIn(t, tasks)) =>
             /\ store' = store /\ history' = history /\ netRecords' = netRecords
             /\ tasks' = Replace(t, [t EXCEPT !.pc = "listing"])
     /\ (InFlight' = 0 /\ started'.delete >= 1) =>
          /\ Range(history') = ValidRecords(store')
          /\ Cardinality(RecordKeys(store')) = netRecords']_vars

\* C12 witness: the entry of id "0" was deleted by two calls that have both
\* settled, and the view shows the record that is left.
C12_Witness ==
  /\ InFlight = 0 /\ started.delete = 2
  /\ Key("0") \notin DOMAIN store
  /\ history = <<OlderRecord>>

\* The step is one of a deleteHistoryItem call: the call itself or a later
\* step of its handler, the refresh included.
DeleteStep ==
  \/ started'.delete # started.delete
  \/ \E t \in Running : t.kind = "delete" /\ CopiesIn(t, tasks') < CopiesIn(t, tasks)

\* C13: no step of a delete changes the current image, the current result or
\* the analyzing flag, also when the record deleted is the one displayed.
C13_DeleteKeepsSession ==
  [][DeleteStep =>
       /\ uploadedImage' = uploadedImage
       /\ result' = result
       /\ analyzing' = analyzing]_vars

\* C13 witness: the record of id "0" was displayed from the history and then
\* deleted; it is gone from the store and the view and still displayed.
C13_Witness ==
  /\ InFlight = 0 /\ started.delete = 1
  /\ Key("0") \notin DOMAIN store /\ OldRecord \notin Range(history)
  /\ result = Some(OldRecord.result) /\ uploadedImage = Some(OldRecord.image)

\* The step is one of an upload handler in flight.
UploadStep ==
  \E t \in Running : t.kind = "upload" /\ CopiesIn(t, tasks') < CopiesIn(t, tasks)

\* C14: a step that changes the displayed image or result and is not a step
\* of an upload is the selection of a history record: it displays that
\* record's image and result, starts no handler and no analysis, writes
\* nothing to the store and leaves the history view and the flag as they are.
C14_SelectCopiesOnly ==
  [][((uploadedImage' # uploadedImage \/ result' # result) /\ ~UploadStep) =>
       /\ \E i \in 1..Len(history) :
            /\ uploadedImage' = Some(history[i].image)
            /\ result' = Some(history[i].result)
       /\ tasks' = tasks /\ started' = started
       /\ store' = store /\ netRecords' = netRecords
       /\ history' = history
       /\ analyzing' = analyzing]_vars

\* C14 witness: the record of id "0" was selected from the history and is
\* displayed, stored and listed, with nothing in flight.
C14_Witness ==
  /\ InFlight = 0 /\ started.delete = 0
  /\ uploadedImage = Some(OldRecord.image) /\ result = Some(OldRecord.result)
  /\ OldRecord \in Range(history) /\ Key("0") \in DOMAIN store

\* The result r is one analyzeCrack can return under the parameters p.
ResultUnder(r, p) ==
  /\ r.Severity \in Range(severityLevels(p.sensitivity))
  /\ r.WidthUnit = (IF p.measurementUnit = "metric" THEN "mm" ELSE "in")
  /\ (r.RecommendedAction # Null) = p.includeRecommendations

\* C15: an analysis uses the parameters in force when it was requested.  The
\* upload that starts takes the parameters then in force; an edit of the
\* parameters changes no upload in flight and no displayed result; and the
\* result an analysis delivers is one of the parameters its upload took,
\* whatever the parameters are by then.
C15_ParamsCapturedAtRequest ==
  [][/\ started'.upload # started.upload =>
          \E t \in BagToSet(tasks') :
             /\ CopiesIn(t, tasks') > CopiesIn(t, tasks)
             /\ t.pc = "reading" /\ t.params = analysisParams
     /\ analysisParams' # analysisParams => (tasks' = tasks /\ result' = result)
     /\ \A t \in Running :
          (/\ t.kind = "upload" /\ t.pc = "analyzing"
           /\ CopiesIn(t, tasks') < CopiesIn(t, tasks)) =>
             /\ result' # Null
             /\ ResultUnder(Val(result'), t.params)
             /\ \E t2 \in BagToSet(tasks') :
                  /\ t2.pc = "writing" /\ t2.params = t.params
                  /\ Val(t2.rec).result = Val(result')]_vars

\* C15 witness: an analysis requested at medium sensitivity with metric units
\* has delivered a Moderate result in millimetres, to be written, while the
\* settings are at high sensitivity and imperial units.
C15_Witness ==
  /\ analysisParams.sensitivity = "high"
  /\ analysisParams.measurementUnit = "imperial"
  /\ result # Null /\ Val(result).Severity = "Moderate" /\ Val(result).WidthUnit = "mm"
  /\ \E t \in Running :
       /\ t.pc = "writing" /\ t.params = DefaultParams
       /\ Val(t.rec).result = Val(result)

\* C16: a settings update replaces one field.  A step that changes the
\* parameters changes exactly one of the three fields, keeps the other two and
\* changes nothing else, so every field holds the value of its last update or,
\* never updated, its initial value.
C16_UpdateReplacesOneField ==
  [][analysisParams' # analysisParams =>
       /\ DOMAIN analysisParams' = DOMAIN DefaultParams
       /\ Cardinality({f \in DOMAIN DefaultParams :
                         analysisParams'[f] # analysisParams[f]}) = 1
       /\ analysisParams'.sensitivity \in Sensitivities
       /\ analysisParams'.measurementUnit \in MeasurementUnits
       /\ analysisParams'.includeRecommendations \in BOOLEAN
       /\ UNCHANGED <<uploadedImage, analyzing, result, history, store, tasks>>]_vars

\* C16 witness: after an analysis at medium sensitivity in metric units, with
\* recommendations, the sensitivity was set to high and the units to imperial:
\* both hold their new value and the checkbox holds the value it had.
C16_Witness ==
  /\ result # Null
  /\ ResultUnder(Val(result), DefaultParams)
  /\ analysisParams = [sensitivity |-> "high", measurementUnit |-> "imperial",
                       includeRecommendations |-> TRUE]

\* C17: no analysis request is issued while no file is held.  With no file
\* held the analyze handler cannot act, no step issues a request or sets the
\* loading flag, and a request that is issued is for the file held.
C17_NoRequestWithoutImage ==
  [][/\ selectedFile = Null =>
          /\ ~ENABLED handleAnalyze
          /\ request' = Null /\ loading' = FALSE
     /\ (request = Null /\ request' # Null) =>
          /\ selectedFile # Null
          /\ Val(request').file = Val(selectedFile)]_vars

\* C17 witness: the Idle state, no file held, where the analyze handler
\* cannot act and nothing is in flight.
C17_Witness ==
  /\ selectedFile = Null /\ preview = Null
  /\ ~ENABLED handleAnalyze
  /\ request = Null /\ ~loading /\ outcome = "none"

\* C18: the risk level of a result is decided by its severity: Severe and
\* Critical give High, Moderate and Significant give Medium, and Major, Minor
\* and Hairline give Low, at every sensitivity and for every draw.
C18_RiskFollowsSeverity ==
  result # Null =>
    LET r == Val(result) IN
    /\ r.Severity = "Severe" => r.RiskLevel = "High"
    /\ r.Severity \in {"Severe", "Critical"} <=> r.RiskLevel = "High"
    /\ r.Severity \in {"Moderate", "Significant"} <=> r.RiskLevel = "Medium"
    /\ r.Severity \in {"Major", "Minor", "Hairline"} <=> r.RiskLevel = "Low"

\* C18 witness: at high sensitivity the third draw gave Major, of risk Low.
C18_Witness ==
  /\ result # Null
  /\ Val(result).Severity = "Major" /\ Val(result).RiskLevel = "Low"

\* C19: a reset is callable from any state of the session and leaves it Idle,
\* that is, in every reachable state that is not Idle some operation of the
\* component can be called after which no image and no result are held and
\* nothing is being analyzed.
C19_ResetCallable ==
  (uploadedImage # Null \/ result # Null \/ analyzing) =>
    ENABLED (Next /\ uploadedImage' = Null /\ result' = Null /\ analyzing' = FALSE)

\* C20: whenever an image and a result are both held, the result is the
\* analysis outcome of that image or both come from one history record, in
\* the offline component and in the networked one.
C20_ResultBelongsToImage ==
  /\ (uploadedImage # Null /\ result # Null) => resultOf = uploadedImage
  /\ (selectedFile # Null /\ apiResult # Null) =>
        Val(apiResult).file = Val(selectedFile)

\* C21: the analyzing flag is set in every state in which an upload whose
\* analysis has started has not finished its handler; the end of one upload's
\* handler does not clear it while another upload is outstanding.
C21_AnalyzingWhileOutstanding ==
  (\E t \in Running :
     t.kind = "upload" /\ t.pc \in {"analyzing", "writing", "listing", "fetching"})
    => analyzing

\* C22: the session never holds an error and a result at the same time.
C22_ErrorOrResult == ~(error # Null /\ apiResult # Null)

\* C23: with recommendations included, the recommended action agrees with the
\* risk level: a result of risk High carries "Immediate professional
\* inspection required" and a result of risk Medium does not carry "Monitor
\* regularly, repair at convenience".
C23_ActionAgreesWithRisk ==
  (result # Null /\ Val(result).RecommendedAction # Null) =>
    LET r == Val(result) IN
    /\ r.RiskLevel = "High" =>
         Val(r.RecommendedAction) = "Immediate professional inspection required"
    /\ r.RiskLevel = "Medium" =>
         Val(r.RecommendedAction) # "Monitor regularly, repair at convenience"

\* The handler of t ends as it does after a refresh that worked: its finally
\* block runs, and the image, the result and the store are as they were.
EndsNormally(t) ==
  /\ tasks' = Remove(t)
  /\ analyzing' = (IF t.kind = "upload" THEN FALSE ELSE analyzing)
  /\ uploadedImage' = uploadedImage /\ result' = result
  /\ store' = store /\ netRecords' = netRecords

====
